---- MODULE Spec2Model ----
(***************************************************************************)
(* A model of three modules of End-to-End-Korean-Speech-Recognition:       *)
(*   e2e/model/attention.py        LocationAwareAttention                  *)
(*   kospeech/models/transformer/decoder.py  SpeechTransformerDecoder      *)
(*   kospeech/models/jasper/decoder.py       JasperDecoder                 *)
(*                                                                         *)
(* A tensor is a record [shape, data]: data lists the elements in          *)
(* row-major order of shape, so view() keeps data and permute() followed   *)
(* by contiguous() reorders it.  Indices are 0-based as in torch.          *)
(* Floating point is modelled over the integers and exact rationals:       *)
(* tanh by the saturating odd monotone map Tanh, exp by powers of two.     *)
(***************************************************************************)
EXTENDS Integers, Sequences, FiniteSets, TLC

\* ------------------------------------------------------------------ bounds
MaxBatch == 2
MaxLen == 2
MaxHeads == 2
MaxHidden == 4
MaxConv == 1
MaxSeed == 1

None == [shape |-> <<>>, data |-> <<>>]

\* ------------------------------------------------------------ arithmetic
RECURSIVE Prod(_)
Prod(s) == IF Len(s) = 0 THEN 1 ELSE s[1] * Prod(Tail(s))

RECURSIVE SumSeq(_)
SumSeq(s) == IF Len(s) = 0 THEN 0 ELSE s[1] + SumSeq(Tail(s))

Abs(x) == IF x < 0 THEN -x ELSE x

RECURSIVE Gcd(_, _)
Gcd(a, b) == IF b = 0 THEN a ELSE Gcd(b, a % b)

RECURSIVE Pow2(_)
Pow2(n) == IF n <= 0 THEN 1 ELSE 2 * Pow2(n - 1)

\* An exact rational n/d, d > 0, in lowest terms.
Rat(n, d) ==
    LET g == Gcd(Abs(n), d)
    IN  [n |-> n \div g, d |-> d \div g]

RatAdd(x, y) == Rat(x.n * y.d + y.n * x.d, x.d * y.d)

RatScale(x, k) == Rat(x.n * k, x.d)

RECURSIVE RatSum(_)
RatSum(s) == IF Len(s) = 0 THEN Rat(0, 1) ELSE RatAdd(s[1], RatSum(Tail(s)))

\* torch.tanh: odd, monotone, bounded by 1, 0 at 0.
Tanh(x) == IF x > 0 THEN 1 ELSE IF x < 0 THEN -1 ELSE 0

\* ---------------------------------------------------------------- tensors
Numel(shape) == Prod(shape)

\* A tensor's storage: the elements listed, each computed once.
Storage(f) == SubSeq(f, 1, Len(f))

Rank(t) == Len(t.shape)

Stride(shape, i) == Prod(SubSeq(shape, i + 1, Len(shape)))

Offset(shape, idx) == SumSeq([i \in 1..Len(shape) |-> idx[i] * Stride(shape, i)])

Unravel(shape, k) == [i \in 1..Len(shape) |-> (k \div Stride(shape, i)) % shape[i]]

At(t, idx) == t.data[Offset(t.shape, idx) + 1]

Indices(shape) == {Unravel(shape, k) : k \in 0..(Numel(shape) - 1)}

\* Tensor.size(d)
Size(t, d) == t.shape[d + 1]

\* Tensor.new_zeros(*shape)
NewZeros(shape) == [shape |-> shape, data |-> Storage([k \in 1..Numel(shape) |-> 0])]

\* Tensor.view(*shape): at most one entry of shape is -1 and is inferred.
View(t, shape) ==
    LET known == Prod([i \in 1..Len(shape) |-> IF shape[i] = -1 THEN 1 ELSE shape[i]])
        full  == [i \in 1..Len(shape) |->
                    IF shape[i] = -1 THEN Len(t.data) \div known ELSE shape[i]]
    IN  [shape |-> full, data |-> t.data]

\* Tensor.permute(*dims).contiguous(): result[idx] = t[src], src[dims[i]] = idx[i].
Permute(t, dims) ==
    LET shape == [i \in 1..Rank(t) |-> t.shape[dims[i] + 1]]
        Src(idx) == [j \in 1..Rank(t) |->
                       idx[CHOOSE i \in 1..Rank(t) : dims[i] + 1 = j]]
    IN  [shape |-> shape,
         data  |-> Storage([k \in 1..Numel(shape) |-> At(t, Src(Unravel(shape, k - 1)))])]

\* Tensor.transpose(d0, d1)
Transpose(t, d0, d1) ==
    Permute(t, [i \in 1..Rank(t) |->
                  IF i = d0 + 1 THEN d1 ELSE IF i = d1 + 1 THEN d0 ELSE i - 1])

\* Tensor.unsqueeze(d)
Unsqueeze(t, d) ==
    [shape |-> SubSeq(t.shape, 1, d) \o <<1>> \o SubSeq(t.shape, d + 1, Rank(t)),
     data  |-> t.data]

\* Tensor.squeeze(d): drops dimension d when its size is 1.
Squeeze(t, d) ==
    IF t.shape[d + 1] = 1
    THEN [shape |-> SubSeq(t.shape, 1, d) \o SubSeq(t.shape, d + 2, Rank(t)),
          data  |-> t.data]
    ELSE t

\* Tensor.repeat(*reps), Len(reps) = Rank(t).
Repeat(t, reps) ==
    LET shape == [i \in 1..Rank(t) |-> t.shape[i] * reps[i]]
        Src(idx) == [i \in 1..Rank(t) |-> idx[i] % t.shape[i]]
    IN  [shape |-> shape,
         data  |-> Storage([k \in 1..Numel(shape) |-> At(t, Src(Unravel(shape, k - 1)))])]

\* Broadcasting of a + b: shapes are aligned on the right, sizes equal or 1.
PadShape(shape, r) == [i \in 1..(r - Len(shape)) |-> 1] \o shape

Broadcastable(sa, sb) ==
    LET r == IF Len(sa) > Len(sb) THEN Len(sa) ELSE Len(sb)
        pa == PadShape(sa, r)
        pb == PadShape(sb, r)
    IN  \A i \in 1..r : pa[i] = pb[i] \/ pa[i] = 1 \/ pb[i] = 1

Add(a, b) ==
    LET r == IF Rank(a) > Rank(b) THEN Rank(a) ELSE Rank(b)
        pa == PadShape(a.shape, r)
        pb == PadShape(b.shape, r)
        shape == [i \in 1..r |-> IF pa[i] = 1 THEN pb[i] ELSE pa[i]]
        Pick(p, idx) == [i \in 1..r |-> IF p[i] = 1 THEN 0 ELSE idx[i]]
        Elem(idx) == a.data[Offset(pa, Pick(pa, idx)) + 1]
                     + b.data[Offset(pb, Pick(pb, idx)) + 1]
    IN  [shape |-> shape,
         data  |-> Storage([k \in 1..Numel(shape) |-> Elem(Unravel(shape, k - 1))])]

\* Elementwise map of torch.tanh.
TanhT(t) == [shape |-> t.shape, data |-> Storage([k \in 1..Len(t.data) |-> Tanh(t.data[k])])]

\* nn.Linear(in, out): y[.., o] = sum_i x[.., i] * weight[o, i] (+ bias[o]).
Linear(t, weight, bias) ==
    LET nin   == weight.shape[2]
        nout  == weight.shape[1]
        shape == SubSeq(t.shape, 1, Rank(t) - 1) \o <<nout>>
        Elem(k) ==
            LET row == k \div nout
                o   == k % nout
            IN  SumSeq([i \in 1..nin |->
                          t.data[row * nin + i] * weight.data[o * nin + i]])
                + (IF bias = None THEN 0 ELSE bias.data[o + 1])
    IN  [shape |-> shape, data |-> Storage([k \in 1..Numel(shape) |-> Elem(k - 1)])]

\* nn.Conv1d(cin, cout, kernel_size=3, padding=1) on x of shape [B, cin, L].
Conv1d(x, weight, bias) ==
    LET B     == x.shape[1]
        cin   == x.shape[2]
        L     == x.shape[3]
        cout  == weight.shape[1]
        shape == <<B, cout, L>>
        In(b, h, p) == IF p < 0 \/ p >= L THEN 0 ELSE At(x, <<b, h, p>>)
        Elem(idx) ==
            bias.data[idx[2] + 1]
            + SumSeq([j \in 1..(cin * 3) |->
                        LET h == (j - 1) \div 3
                            k == (j - 1) % 3
                        IN  At(weight, <<idx[2], h, k>>) * In(idx[1], h, idx[3] + k - 1)])
    IN  [shape |-> shape,
         data  |-> Storage([k \in 1..Numel(shape) |-> Elem(Unravel(shape, k - 1))])]

\* F.softmax(t, dim) of a 2-D tensor: each entry's exponential over the sum of
\* the exponentials of the entries that differ from it in index dim only.
Softmax(t, dim) ==
    LET Group(idx) == [j \in 1..t.shape[dim + 1] |->
                         At(t, [i \in 1..2 |-> IF i = dim + 1 THEN j - 1 ELSE idx[i]])]
        Min(s) == CHOOSE m \in {s[j] : j \in 1..Len(s)} :
                      \A j \in 1..Len(s) : m <= s[j]
        Elem(idx) ==
            LET g == Group(idx)
                m == Min(g)
            IN  Rat(Pow2(At(t, idx) - m), SumSeq([j \in 1..Len(g) |-> Pow2(g[j] - m)]))
    IN  [shape |-> t.shape,
         data  |-> Storage([k \in 1..Numel(t.shape) |-> Elem(Unravel(t.shape, k - 1))])]

\* torch.bmm(a, b): a [R, n, m] of rationals, b [R, m, p] of integers.
Bmm(a, b) ==
    LET shape == <<a.shape[1], a.shape[2], b.shape[3]>>
        m == a.shape[3]
        Elem(idx) == RatSum([j \in 1..m |->
                       RatScale(At(a, <<idx[1], idx[2], j - 1>>),
                                At(b, <<idx[1], j - 1, idx[3]>>))])
    IN  [shape |-> shape,
         data  |-> Storage([k \in 1..Numel(shape) |-> Elem(Unravel(shape, k - 1))])]

\* torch.cat([a, b], dim=2) of 3-D tensors: a of rationals, b of integers.
Cat2(a, b) ==
    LET shape == <<a.shape[1], a.shape[2], a.shape[3] + b.shape[3]>>
        Elem(idx) == IF idx[3] < a.shape[3]
                     THEN At(a, idx)
                     ELSE Rat(At(b, <<idx[1], idx[2], idx[3] - a.shape[3]>>), 1)
    IN  [shape |-> shape,
         data  |-> Storage([k \in 1..Numel(shape) |-> Elem(Unravel(shape, k - 1))])]

\* nn.Linear applied to a tensor of rationals.
LinearRat(t, weight, bias) ==
    LET nin   == weight.shape[2]
        nout  == weight.shape[1]
        shape == SubSeq(t.shape, 1, Rank(t) - 1) \o <<nout>>
        Elem(k) ==
            LET row == k \div nout
                o   == k % nout
            IN  RatAdd(RatSum([i \in 1..nin |->
                          RatScale(t.data[row * nin + i], weight.data[o * nin + i])]),
                       Rat(bias.data[o + 1], 1))
    IN  [shape |-> shape, data |-> Storage([k \in 1..Numel(shape) |-> Elem(k - 1)])]

\* ------------------------------------------------- LocationAwareAttention
VARIABLES
    module,     \* which nn.Module the program constructed
    self,       \* the instance: its attributes and parameters
    call,       \* the frame of the call that has just run, NoCall between calls
    encoder,    \* the caller's encoder outputs and their lengths
    history,    \* the caller's decoding loop: the tokens decoded so far
    steps       \* the hidden states each forward_step of the loop classified

vars == <<module, self, call, encoder, history, steps>>

\* A parameter tensor as torch initialises it: arbitrary small values, drawn
\* here from -1..1 by position; seed 0 gives the projections unit diagonals.
RandT(shape, seed, salt) ==
    [shape |-> shape,
     data  |-> Storage([k \in 1..Numel(shape) |->
                  ((k * salt + seed * (k + salt) + (k \div 3)) % 3) - 1])]

EyeT(shape) ==
    [shape |-> shape,
     data  |-> Storage([k \in 1..Numel(shape) |->
                  IF Unravel(shape, k - 1)[1] = Unravel(shape, k - 1)[2] THEN 1 ELSE 0])]

ProjT(shape, seed, salt) == IF seed = 0 THEN EyeT(shape) ELSE RandT(shape, seed, salt)

\* LocationAwareAttention.__init__(hidden_dim, num_heads, conv_out_channel):
\* the attributes it assigns, and no other.
AttentionInit(hidden_dim, num_heads, conv_out_channel, seed) ==
    LET dim == hidden_dim \div num_heads
    IN  [training    |-> TRUE,
         num_heads   |-> num_heads,
         dim         |-> dim,
         q_proj      |-> [weight |-> ProjT(<<dim * num_heads, hidden_dim>>, seed, 1)],
         v_proj      |-> [weight |-> ProjT(<<dim * num_heads, hidden_dim>>, seed, 2)],
         loc_proj    |-> [weight |-> RandT(<<dim, conv_out_channel>>, seed, 1)],
         conv1d      |-> [weight |-> RandT(<<conv_out_channel, num_heads, 3>>, seed, 2),
                          bias   |-> RandT(<<conv_out_channel>>, seed, 1)],
         bias        |-> RandT(<<dim>>, seed, 2),
         score_proj  |-> [weight |-> RandT(<<1, dim>>, seed, 1),
                          bias   |-> RandT(<<1>>, seed, 1)],
         output_proj |-> [weight |-> RandT(<<hidden_dim, hidden_dim * 2>>, seed, 1),
                          bias   |-> RandT(<<hidden_dim>>, seed, 2)]]

\* nn.Module.__getattr__: an attribute the instance does not hold raises
\* AttributeError.
HasAttr(obj, name) == name \in DOMAIN obj

\* self.conv1d(prev_align).transpose(1, 2) runs for a 3-D input whose channel
\* axis has num_heads entries.  A 2-D input is rejected by conv1d, or taken as
\* one unbatched [channels, length] sample whose 2-D output transpose(1, 2)
\* rejects: line 54 raises either way.
LocInputOk(obj, prev_align) ==
    Rank(prev_align) = 3 /\ prev_align.shape[2] = obj.conv1d.weight.shape[2]

\* Line 51 with the last two sizes exchanged.
InitialAlignSwapped(obj, value) ==
    NewZeros(<<Size(value, 0), Size(value, 1), obj.num_heads>>)

\* Line 51: the zeros that stand for an absent prev_align.
InitialAlign(obj, value) ==
    NewZeros(<<Size(value, 0), obj.num_heads, Size(value, 1)>>)

\* Line 54: the location signal, [batch, seq_len, dim], one per batch element.
LocSignal(obj, prev_align) ==
    TanhT(Linear(Transpose(Conv1d(prev_align, obj.conv1d.weight, obj.conv1d.bias), 1, 2),
                 obj.loc_proj.weight, None))

\* Line 55 repeating along the batch axis: rows in head-major order.
LocEnergyHeadMajor(obj, loc_energy, seq_len) ==
    View(Repeat(loc_energy, <<obj.num_heads, 1, 1>>), <<-1, seq_len, obj.dim>>)

\* Line 55: the signal repeated for each head, [batch * num_heads, seq_len, dim].
LocEnergy(obj, loc_energy, seq_len) ==
    View(Repeat(Unsqueeze(loc_energy, 1), <<1, obj.num_heads, 1, 1>>),
         <<-1, seq_len, obj.dim>>)

\* Lines 58 and 60: the projected query, [batch * num_heads, 1, dim].
SplitQuery(obj, query, batch_size) ==
    View(Permute(View(Linear(query, obj.q_proj.weight, None),
                      <<batch_size, -1, obj.num_heads, obj.dim>>), <<0, 2, 1, 3>>),
         <<-1, 1, obj.dim>>)

\* Lines 59 and 61: the projected value, [batch * num_heads, seq_len, dim].
SplitValue(obj, value, batch_size, seq_len) ==
    View(Permute(View(Linear(value, obj.v_proj.weight, None),
                      <<batch_size, -1, obj.num_heads, obj.dim>>), <<0, 2, 1, 3>>),
         <<-1, seq_len, obj.dim>>)

\* Line 64: the energies, [batch * num_heads, seq_len].
Score(obj, value, query, loc_energy) ==
    Squeeze(Linear(TanhT(Add(Add(Add(value, query), loc_energy), obj.bias)),
                   obj.score_proj.weight, obj.score_proj.bias), 2)

\* Line 65.
Align(score) == Softmax(score, 1)

\* Lines 67-68: the value handed to bmm.
RegroupValue(obj, value, batch_size, seq_len) ==
    View(Permute(View(value, <<batch_size, seq_len, obj.num_heads, obj.dim>>),
                 <<0, 2, 1, 3>>),
         <<-1, seq_len, obj.dim>>)

\* Line 71.
Context(obj, align, value, batch_size) ==
    View(Bmm(Unsqueeze(align, 1), value), <<batch_size, -1, obj.num_heads * obj.dim>>)

\* Line 76, reached when self.hidden_dim exists.
Output(obj, combined, batch_size) ==
    View(LinearRat(View(combined, <<-1, obj.hidden_dim * 2>>),
                   obj.output_proj.weight, obj.output_proj.bias),
         <<batch_size, -1, obj.hidden_dim>>)

Raise(exc, line) == [kind |-> "raise", exc |-> exc, line |-> line]

Return == [kind |-> "return", exc |-> "", line |-> 78]

\* LocationAwareAttention.forward(query, value, prev_align): the locals at the
\* point the call ends (None for a local not assigned by then) and how it ends.
AttentionForward(obj, query, value, prev_align) ==
    LET batch_size == Size(value, 0)
        seq_len    == Size(value, 1)
        residual   == query
        prev       == IF prev_align = None THEN InitialAlign(obj, value) ELSE prev_align
        ok54       == LocInputOk(obj, prev)
        loc_signal == LocSignal(obj, prev)
        loc_energy == LocEnergy(obj, loc_signal, seq_len)
        q          == SplitQuery(obj, query, batch_size)
        v          == SplitValue(obj, value, batch_size, seq_len)
        ok64       == ok54 /\ Broadcastable(v.shape, q.shape)
                           /\ Broadcastable(v.shape, loc_energy.shape)
        score      == Score(obj, v, q, loc_energy)
        align      == Align(score)
        v2         == RegroupValue(obj, v, batch_size, seq_len)
        context    == Context(obj, align, v2, batch_size)
        combined   == Cat2(context, residual)
        ok76       == ok64 /\ HasAttr(obj, "hidden_dim")
    IN  [op          |-> "LocationAwareAttention.forward",
         args        |-> [query |-> query, value |-> value, prev_align |-> prev_align],
         batch_size  |-> batch_size,
         seq_len     |-> seq_len,
         prev_align  |-> prev,
         loc_signal  |-> IF ok54 THEN loc_signal ELSE None,
         loc_energy  |-> IF ok54 THEN loc_energy ELSE None,
         proj_query  |-> IF ok54 THEN Linear(query, obj.q_proj.weight, None) ELSE None,
         proj_value  |-> IF ok54 THEN Linear(value, obj.v_proj.weight, None) ELSE None,
         query       |-> IF ok54 THEN q ELSE query,
         score_value |-> IF ok54 THEN v ELSE None,
         value       |-> IF ok64 THEN v2 ELSE IF ok54 THEN v ELSE value,
         score       |-> IF ok64 THEN score ELSE None,
         align       |-> IF ok64 THEN View(align, <<batch_size, obj.num_heads, -1>>) ELSE None,
         context     |-> IF ok64 THEN context ELSE None,
         combined    |-> IF ok64 THEN combined ELSE None,
         output      |-> IF ok76 THEN Output(obj, combined, batch_size) ELSE None,
         result      |-> IF ~ok54 THEN Raise("RuntimeError", 54)
                         ELSE IF ~ok64 THEN Raise("RuntimeError", 64)
                         ELSE IF ~ok76 THEN Raise("AttributeError", 76)
                         ELSE Return]

\* The caller's tensors: pairwise distinct entries around zero.
InputT(shape) ==
    [shape |-> shape,
     data  |-> Storage([k \in 1..Numel(shape) |-> k - 1 - (Numel(shape) \div 2)])]

\* An alignment with one position of weight 1 per row.
OneHotT(shape) ==
    [shape |-> shape,
     data  |-> Storage([k \in 1..Numel(shape) |->
                  LET idx == Unravel(shape, k - 1)
                      n   == shape[Len(shape)]
                  IN  IF idx[Len(shape)] = (SumSeq(idx) - idx[Len(shape)]) % n
                      THEN 1 ELSE 0])]

\* What a caller passes as prev_align for value [batch, v_len, hidden_dim].
PrevAligns(obj, batch, v_len) ==
    { None,
      NewZeros(<<batch, obj.num_heads, v_len>>),
      OneHotT(<<batch, obj.num_heads, v_len>>),
      OneHotT(<<batch * obj.num_heads, v_len>>) }

NoCall == [op |-> "none"]

HiddenDim(obj) == obj.q_proj.weight.shape[2]

\* forward keeping the alignment it was given on the instance.
AttentionSelfKeepsAlign(obj, query, value, prev_align) ==
    [name \in DOMAIN obj \cup {"prev_align"} |->
        IF name = "prev_align" THEN prev_align ELSE obj[name]]

\* The instance after LocationAwareAttention.forward: no line of it assigns to
\* self.
AttentionSelfAfter(obj, query, value, prev_align) == obj

AttentionCall ==
    /\ module = "attention"
    /\ call = NoCall
    /\ \E batch \in 1..MaxBatch, v_len \in 1..MaxLen :
         \E prev_align \in PrevAligns(self, batch, v_len) :
            LET query == InputT(<<batch, 1, HiddenDim(self)>>)
                value == InputT(<<batch, v_len, HiddenDim(self)>>)
            IN  /\ call' = AttentionForward(self, query, value, prev_align)
                /\ self' = AttentionSelfAfter(self, query, value, prev_align)
    /\ UNCHANGED <<module, encoder, history, steps>>

\* ------------------------------------------------ SpeechTransformerDecoder
\* Hidden vectors are terms [op, n, args] over the collaborators of the
\* decoder (embedding, positional encoding, attention, feed forward), whose
\* arithmetic is outside these files: two vectors are equal when the same
\* operations were applied to the same operands.  A [batch, length, d_model]
\* tensor is a sequence (batch) of sequences (positions) of terms.
PadId == 0
SosId == 1
EosId == 2
NumClasses == EosId + 1
Classes == 0..(NumClasses - 1)
MaxLayers == 2
MaxTarget == 3
MaxEnc == 2
MaxDraw == 2

Term(op, n, args) == [op |-> op, n |-> n, args |-> args]

\* Embedding(num_classes, pad_id, d_model) applied to token ids [batch, length].
Embedding(inputs) ==
    [b \in 1..Len(inputs) |-> [t \in 1..Len(inputs[b]) |->
        Term("embedding", inputs[b][t], <<>>)]]

\* PositionalEncoding(d_model) applied to a length: the first length rows.
PositionalEncoding(length) == [t \in 1..length |-> Term("positional_encoding", t, <<>>)]

\* nn.Dropout: the identity in evaluation mode; in training mode the entries
\* are zeroed by a random mask, drawn anew at each call (draw names it).
Dropout(x, training, draw) ==
    IF training
    THEN [b \in 1..Len(x) |-> [t \in 1..Len(x[b]) |-> Term("dropout", draw, <<x[b][t]>>)]]
    ELSE x

\* get_decoder_self_attn_mask(inputs, inputs, pad_id): position t may not
\* attend to a later position nor to a padding token.  TRUE is masked.
GetDecoderSelfAttnMask(inputs, pad_id) ==
    [b \in 1..Len(inputs) |-> [t \in 1..Len(inputs[b]) |-> [j \in 1..Len(inputs[b]) |->
        j > t \/ inputs[b][j] = pad_id]]]

\* get_attn_pad_mask(encoder_outputs, encoder_output_lengths, target_length):
\* no target position may attend to encoder padding.
GetAttnPadMask(encoder_outputs, encoder_output_lengths, target_length) ==
    [b \in 1..Len(encoder_outputs) |-> [t \in 1..target_length |->
        [j \in 1..Len(encoder_outputs[b]) |-> j > encoder_output_lengths[b]]]]

NoMask == <<>>

RECURSIVE Allowed(_, _, _)
\* The keys, from position j on, that the mask row leaves open.
Allowed(keys, row, j) ==
    IF j > Len(keys) THEN <<>>
    ELSE (IF row = NoMask \/ ~row[j] THEN <<Term("key", j, <<keys[j]>>)>> ELSE <<>>)
         \o Allowed(keys, row, j + 1)

\* AddNorm(MultiHeadAttention)(query, key, value, mask): each query position
\* is combined with the keys and values its mask row leaves open, added to the
\* query and normalised.
AddNormAttention(name, layer, query, key, mask) ==
    [b \in 1..Len(query) |-> [t \in 1..Len(query[b]) |->
        Term(name, layer,
             <<query[b][t]>> \o Allowed(key[b], IF mask = NoMask THEN NoMask ELSE mask[b][t], 1))]]

\* AddNorm(PositionwiseFeedForwardNet)(inputs): position by position.
AddNormFeedForward(layer, inputs) ==
    [b \in 1..Len(inputs) |-> [t \in 1..Len(inputs[b]) |->
        Term("feed_forward", layer, <<inputs[b][t]>>)]]

\* The layer with its self-attention left unmasked.
DecoderLayerForwardUnmasked(layer, inputs, memory, self_attn_mask, memory_mask) ==
    LET self_out   == AddNormAttention("self_attention", layer, inputs, inputs, NoMask)
        memory_out == AddNormAttention("memory_attention", layer, self_out, memory, memory_mask)
    IN  AddNormFeedForward(layer, memory_out)

\* SpeechTransformerDecoderLayer.forward(inputs, memory, self_attn_mask,
\* memory_mask) of layer number layer: its first return value.
DecoderLayerForward(layer, inputs, memory, self_attn_mask, memory_mask) ==
    LET self_out   == AddNormAttention("self_attention", layer, inputs, inputs, self_attn_mask)
        memory_out == AddNormAttention("memory_attention", layer, self_out, memory, memory_mask)
    IN  AddNormFeedForward(layer, memory_out)

\* SpeechTransformerDecoder.__init__
DecoderInit(num_layers, max_length) ==
    [training   |-> TRUE,
     num_layers |-> num_layers,
     pad_id     |-> PadId,
     sos_id     |-> SosId,
     eos_id     |-> EosId,
     max_length |-> max_length,
     layers     |-> [i \in 1..num_layers |-> i]]

RECURSIVE DecoderLayersSameInput(_, _, _, _, _, _)
\* The loop handing every layer the input of the first.
DecoderLayersSameInput(layers, i, outputs, encoder_outputs, self_attn_mask, encoder_outputs_mask) ==
    IF i > Len(layers) THEN <<>>
    ELSE <<[layer          |-> layers[i],
            inputs         |-> outputs,
            memory         |-> encoder_outputs,
            self_attn_mask |-> self_attn_mask,
            memory_mask    |-> encoder_outputs_mask,
            outputs        |-> DecoderLayerForward(layers[i], outputs, encoder_outputs,
                                                   self_attn_mask, encoder_outputs_mask)]>>
         \o DecoderLayersSameInput(layers, i + 1, outputs, encoder_outputs,
                                   self_attn_mask, encoder_outputs_mask)

RECURSIVE DecoderLayers(_, _, _, _, _, _)
\* Lines 144-145: the calls of the loop over self.layers from layer i on, each
\* with what it was given and what it returned.
DecoderLayers(layers, i, outputs, encoder_outputs, self_attn_mask, encoder_outputs_mask) ==
    IF i > Len(layers) THEN <<>>
    ELSE LET out == DecoderLayerForward(layers[i], outputs, encoder_outputs,
                                        self_attn_mask, encoder_outputs_mask)
         IN  <<[layer          |-> layers[i],
                inputs         |-> outputs,
                memory         |-> encoder_outputs,
                self_attn_mask |-> self_attn_mask,
                memory_mask    |-> encoder_outputs_mask,
                outputs        |-> out]>>
             \o DecoderLayers(layers, i + 1, out, encoder_outputs,
                              self_attn_mask, encoder_outputs_mask)

\* SpeechTransformerDecoder.forward(inputs, encoder_output_lengths,
\* encoder_outputs); draw is the dropout mask this call draws.
DecoderForward(obj, inputs, encoder_output_lengths, encoder_outputs, draw) ==
    LET target_length        == Len(inputs[1])
        self_attn_mask       == GetDecoderSelfAttnMask(inputs, obj.pad_id)
        encoder_outputs_mask == GetAttnPadMask(encoder_outputs, encoder_output_lengths,
                                               target_length)
        emb     == Embedding(inputs)
        pos     == PositionalEncoding(target_length)
        summed  == [b \in 1..Len(emb) |-> [t \in 1..target_length |->
                      Term("add", 0, <<emb[b][t], pos[t]>>)]]
        dropped == Dropout(summed, obj.training, draw)
        calls   == DecoderLayers(obj.layers, 1, dropped, encoder_outputs,
                                 self_attn_mask, encoder_outputs_mask)
    IN  [op                   |-> "SpeechTransformerDecoder.forward",
         inputs               |-> inputs,
         encoder_outputs      |-> encoder_outputs,
         training             |-> obj.training,
         self_attn_mask       |-> self_attn_mask,
         encoder_outputs_mask |-> encoder_outputs_mask,
         embedded             |-> dropped,
         layer_calls          |-> calls,
         outputs              |-> IF Len(calls) = 0 THEN dropped ELSE calls[Len(calls)].outputs,
         result               |-> Return]

\* IncrementalDecoder's self.decoder: the decoder stack of full-sequence mode.
IncrementalDecoderStack(obj, inputs, encoder_output_lengths, encoder_outputs, draw) ==
    DecoderForward(obj, inputs, encoder_output_lengths, encoder_outputs, draw).outputs

\* SpeechTransformerDecoder.forward_step(prev_step_outputs,
\* encoder_output_lengths, encoder_outputs).  Of the ids it returns, one per
\* position, the frame keeps the last position's, the one the loop reads:
\* last_token, the class of highest score under self.fc there.
DecoderForwardStep(obj, prev_step_outputs, encoder_output_lengths, encoder_outputs, draw, last_token) ==
    LET step_output == IncrementalDecoderStack(obj, prev_step_outputs,
                                               encoder_output_lengths, encoder_outputs, draw)
    IN  [op          |-> "SpeechTransformerDecoder.forward_step",
         inputs      |-> prev_step_outputs,
         training    |-> obj.training,
         step_output |-> step_output,
         last_token  |-> last_token,
         result      |-> Return]

\* The instance after forward and after forward_step: neither assigns to self.
DecoderSelfAfter(obj, inputs) == obj

Draws(obj) == IF obj.training THEN 1..MaxDraw ELSE {0}

\* The caller's loop is decoding: fewer than max_length tokens, none of them
\* eos_id yet.
Decoding ==
    /\ Len(history) = 1
    /\ Len(history[1]) < self.max_length
    /\ history[1][Len(history[1])] # self.eos_id

DecoderForwardCall ==
    /\ module = "transformer"
    /\ call = NoCall
    /\ \E draw \in Draws(self) :
         call' = DecoderForward(self, history, encoder.lengths, encoder.outputs, draw)
    /\ self' = DecoderSelfAfter(self, history)
    /\ UNCHANGED <<module, encoder, history, steps>>

\* One pass of the caller's greedy loop: forward_step on the history.  The
\* weights of self.fc are arbitrary, so the arg-max at a position is any class.
DecoderStepCall ==
    /\ module = "transformer"
    /\ call = NoCall
    /\ Decoding
    /\ \E draw \in Draws(self), last_token \in Classes :
         call' = DecoderForwardStep(self, history, encoder.lengths, encoder.outputs, draw,
                                    last_token)
    /\ self' = DecoderSelfAfter(self, history)
    /\ UNCHANGED <<module, encoder, history, steps>>

\* The caller appends the token predicted at the last position.
AppendToken ==
    /\ call # NoCall
    /\ call.op = "SpeechTransformerDecoder.forward_step"
    /\ history' = <<Append(history[1], call.last_token)>>
    /\ steps' = Append(steps, [training |-> call.training, hidden |-> call.step_output])
    /\ call' = NoCall
    /\ UNCHANGED <<module, self, encoder>>

\* nn.Module.train(mode) and nn.Module.eval(), between two decoding loops, on
\* the module whose nn.Dropout reads the flag.
SetTraining ==
    /\ module = "transformer"
    /\ call = NoCall
    /\ steps = <<>>
    /\ self' = [self EXCEPT !.training = ~self.training]
    /\ UNCHANGED <<module, call, encoder, history, steps>>

\* ------------------------------------------------------------ JasperDecoder
MaxChannels == 2

\* JasperSubBlock(in_channels, out_channels, ...)(inputs, input_lengths): a
\* 1-D convolution block; it rejects an input whose channel count is not its
\* in_channels.
JasperSubBlock(block, inputs, input_lengths) ==
    IF inputs.channels # block.in_channels
    THEN [ok |-> FALSE, output |-> inputs, output_lengths |-> input_lengths]
    ELSE [ok             |-> TRUE,
          output         |-> [channels |-> block.out_channels,
                              value    |-> Term("sub_block", block.index, <<inputs.value>>)],
          output_lengths |-> Term("lengths", block.index, <<input_lengths>>)]

\* JasperDecoder.__init__(config): three sub-blocks, block i from
\* config.block[...][i].
JasperInit(in_channels, out_channels) ==
    [training |-> TRUE,
     layers   |-> [i \in 1..3 |-> [index        |-> i,
                                   in_channels  |-> in_channels[i],
                                   out_channels |-> out_channels[i]]]]

RECURSIVE JasperLayers(_, _, _, _, _, _)
\* Lines 57-58: the calls of the loop over self.layers from layer i on, up to
\* the first that raises.
JasperLayers(layers, i, output, output_lengths, encoder_outputs, encoder_output_lengths) ==
    IF i > Len(layers) THEN <<>>
    ELSE LET r == JasperSubBlock(layers[i], encoder_outputs, encoder_output_lengths)
         IN  <<[layer          |-> i,
                inputs         |-> encoder_outputs,
                input_lengths  |-> encoder_output_lengths,
                ok             |-> r.ok,
                output         |-> r.output,
                output_lengths |-> r.output_lengths]>>
             \o (IF r.ok
                 THEN JasperLayers(layers, i + 1, r.output, r.output_lengths,
                                   encoder_outputs, encoder_output_lengths)
                 ELSE <<>>)

\* JasperDecoder.forward(encoder_outputs, encoder_output_lengths)
JasperForward(obj, encoder_outputs, encoder_output_lengths) ==
    LET calls  == JasperLayers(obj.layers, 1, encoder_outputs, encoder_output_lengths,
                               encoder_outputs, encoder_output_lengths)
        last   == calls[Len(calls)]
    IN  [op             |-> "JasperDecoder.forward",
         inputs         |-> encoder_outputs,
         input_lengths  |-> encoder_output_lengths,
         layer_calls    |-> calls,
         output         |-> IF last.ok
                            THEN [channels |-> last.output.channels,
                                  value    |-> Term("log_softmax", -1, <<last.output.value>>)]
                            ELSE last.output,
         output_lengths |-> last.output_lengths,
         result         |-> IF last.ok THEN [kind |-> "return", exc |-> "", line |-> 62]
                            ELSE Raise("RuntimeError", 58)]

JasperCall ==
    /\ module = "jasper"
    /\ call = NoCall
    /\ call' = JasperForward(self, encoder.outputs, encoder.lengths)
    /\ UNCHANGED <<module, self, encoder, history, steps>>

\* ------------------------------------------------------------ the program
\* The call has ended: its frame is gone and the caller goes on.
Exit ==
    /\ call # NoCall
    /\ call.op # "SpeechTransformerDecoder.forward_step"
    /\ call' = NoCall
    /\ UNCHANGED <<module, self, encoder, history, steps>>

NoEncoder == [outputs |-> <<>>, lengths |-> <<>>]

InitAttention ==
    /\ module = "attention"
    /\ \E hidden_dim \in 1..MaxHidden, num_heads \in 1..MaxHeads,
          conv_out_channel \in 1..MaxConv, seed \in 0..MaxSeed :
         /\ num_heads <= hidden_dim
         /\ self = AttentionInit(hidden_dim, num_heads, conv_out_channel, seed)
    /\ encoder = NoEncoder
    /\ history = <<>>

InitTransformer ==
    /\ module = "transformer"
    /\ \E num_layers \in 1..MaxLayers : self = DecoderInit(num_layers, MaxTarget)
    /\ \E length \in 1..MaxEnc :
         encoder = [outputs |-> <<[j \in 1..MaxEnc |-> Term("encoder", j, <<>>)]>>,
                    lengths |-> <<length>>]
    /\ history = <<<<SosId>>>>

InitJasper ==
    /\ module = "jasper"
    /\ \E c \in [0..3 -> 1..MaxChannels], length \in 1..MaxEnc :
         /\ self = JasperInit(<<c[0], c[1], c[2]>>, <<c[1], c[2], c[3]>>)
         /\ encoder = [outputs |-> [channels |-> c[0], value |-> Term("encoder", 0, <<>>)],
                       lengths |-> Term("encoder_lengths", length, <<>>)]
    /\ history = <<>>

Init ==
    /\ InitAttention \/ InitTransformer \/ InitJasper
    /\ call = NoCall
    /\ steps = <<>>

Next ==
    \/ AttentionCall
    \/ DecoderForwardCall
    \/ DecoderStepCall
    \/ AppendToken
    \/ JasperCall
    \/ SetTraining
    \/ Exit

Spec == Init /\ [][Next]_vars

\* ------------------------------------------------------------------ claims
IsAttention == call.op = "LocationAwareAttention.forward"

IsForward == call.op = "SpeechTransformerDecoder.forward"

IsForwardStep == call.op = "SpeechTransformerDecoder.forward_step"

IsJasper == call.op = "JasperDecoder.forward"

\* The call's arguments are those the contract admits: hidden_dim divisible by
\* num_heads, prev_align None or [batch, num_heads, v_len].
ValidAttentionCall ==
    /\ IsAttention
    /\ self.dim * self.num_heads = HiddenDim(self)
    /\ \/ call.args.prev_align = None
       \/ call.args.prev_align.shape = <<call.batch_size, self.num_heads, call.seq_len>>

\* The rows of a [batch, num_heads, v_len] alignment are distributions: every
\* entry is non-negative and each row sums to 1.
RowsAreDistributions(align) ==
    \A b \in 0..(align.shape[1] - 1), h \in 0..(align.shape[2] - 1) :
        /\ \A t \in 0..(align.shape[3] - 1) : At(align, <<b, h, t>>).n >= 0
        /\ RatSum([t \in 1..align.shape[3] |-> At(align, <<b, h, t - 1>>)]) = Rat(1, 1)

\* C1: every forward call with valid arguments completes without raising and
\* returns an output of the shape of query, [batch, 1, hidden_dim].
C1_OutputHasQueryShape ==
    ValidAttentionCall =>
        /\ call.result.kind = "return"
        /\ call.output.shape = call.args.query.shape

\* C2: the value multiplied by align in the bmm holds at every index
\* (b * num_heads + h, t, d) the element of the value the scores were computed
\* from; where the alignment of (b, h) is one-hot on t, the context of (b, h)
\* is the head-h slice of the projected value at position t of batch b.
C2_ContextFromScoredValue ==
    (IsAttention /\ call.context # None) =>
        /\ \A idx \in Indices(call.score_value.shape) :
               At(call.value, idx) = At(call.score_value, idx)
        /\ \A b \in 0..(call.batch_size - 1), h \in 0..(self.num_heads - 1),
              t \in 0..(call.seq_len - 1) :
               At(call.align, <<b, h, t>>) = Rat(1, 1) =>
                   \A d \in 0..(self.dim - 1) :
                       At(call.context, <<b, 0, h * self.dim + d>>)
                           = Rat(At(call.proj_value, <<b, t, h * self.dim + d>>), 1)

\* C3: an alignment in the PreviousAlignment shape [batch * num_heads, v_len]
\* is accepted as prev_align, and the call returns an alignment of shape
\* [batch, num_heads, v_len].
C3_AlignmentThreadsToNextCall ==
    (/\ IsAttention
     /\ self.dim * self.num_heads = HiddenDim(self)
     /\ call.args.prev_align.shape = <<call.batch_size * self.num_heads, call.seq_len>>) =>
        /\ call.result.kind = "return"
        /\ call.align.shape = <<call.batch_size, self.num_heads, call.seq_len>>

\* C4: forward returns an alignment normalized over the value-sequence axis:
\* for every (b, h) the entries of alignment[b, h, :] are non-negative and sum
\* to 1.
C4_ReturnedAlignNormalized ==
    ValidAttentionCall =>
        /\ call.result.kind = "return"
        /\ RowsAreDistributions(call.align)

C10_ScoreOperandsRowOrder ==
    (IsAttention /\ call.score # None) =>
        \A b \in 0..(call.batch_size - 1), h \in 0..(self.num_heads - 1),
           d \in 0..(self.dim - 1) :
            LET row == b * self.num_heads + h
            IN  /\ At(call.query, <<row, 0, d>>)
                       = At(call.proj_query, <<b, 0, h * self.dim + d>>)
                /\ \A t \in 0..(call.seq_len - 1) :
                       /\ At(call.score_value, <<row, t, d>>)
                              = At(call.proj_value, <<b, t, h * self.dim + d>>)
                       /\ At(call.loc_energy, <<row, t, d>>)
                              = At(call.loc_signal, <<b, t, d>>)

C10_Witness ==
    /\ IsAttention
    /\ call.score # None
    /\ call.batch_size > 1 /\ call.seq_len > 1 /\ self.num_heads > 1 /\ self.dim > 1
    /\ \E b \in 0..(call.batch_size - 1), t \in 0..(call.seq_len - 1) :
           At(call.loc_signal, <<b, t, 0>>) # At(call.loc_signal, <<0, 0, 0>>)

\* The alignment forward has computed by line 72, whether or not the call
\* goes on to return it, is normalized row by row.
ComputedAlignNormalized == (IsAttention /\ call.align # None) => RowsAreDistributions(call.align)

\* What layer 1 is to receive at position t of row b: the sum of the token's
\* embedding and the position's encoding, passed through dropout.
EmbeddedInput(b, t) ==
    LET sum == Term("add", 0, <<Term("embedding", call.inputs[b][t], <<>>),
                                Term("positional_encoding", t, <<>>)>>)
    IN  IF call.training THEN Term("dropout", call.embedded[b][t].n, <<sum>>) ELSE sum

\* C6: forward applies the num_layers layers in list order: layer 1 receives
\* the dropped-out sum of token embedding and positional encoding, layer i + 1
\* receives layer i's output, every layer receives the same unmodified
\* encoder_outputs and the two masks computed before the loop, and the value
\* returned is the last layer's output.
C6_LayersChained ==
    IsForward =>
        LET calls == call.layer_calls
            n     == Len(calls)
        IN  /\ n = self.num_layers
            /\ \A i \in 1..n :
                   /\ calls[i].layer = self.layers[i]
                   /\ calls[i].memory = encoder.outputs
                   /\ calls[i].self_attn_mask = call.self_attn_mask
                   /\ calls[i].memory_mask = call.encoder_outputs_mask
            /\ \A b \in 1..Len(call.inputs) : \A t \in 1..Len(call.inputs[b]) :
                   calls[1].inputs[b][t] = EmbeddedInput(b, t)
            /\ \A i \in 1..(n - 1) : calls[i + 1].inputs = calls[i].outputs
            /\ call.outputs = calls[n].outputs
            /\ call.result.kind = "return"

C6_Witness ==
    /\ IsForward
    /\ self.num_layers > 1
    /\ Len(call.inputs[1]) > 1
    /\ call.training

\* The hidden states every recorded forward_step classified are, position by
\* position, those of the forward call on the history.
StepsMatchForward(which) ==
    \A k \in which :
        /\ Len(steps[k].hidden[1]) <= Len(call.outputs[1])
        /\ \A t \in 1..Len(steps[k].hidden[1]) :
               steps[k].hidden[1][t] = call.outputs[1][t]

C8_CallsKeepModule == [][(call = NoCall /\ call' # NoCall) => self' = self]_vars

\* C8 as stated, its conclusion: the result of a call depends only on its
\* arguments and the parameters, so it is the result of every call of forward
\* with these arguments on this instance, whatever mask nn.Dropout draws.
C8_ResultDependsOnArgumentsOnly ==
    IsForward =>
        \A draw \in 1..MaxDraw :
            call.outputs = DecoderForward(self, call.inputs, encoder.lengths,
                                          encoder.outputs, draw).outputs

C8_Witness ==
    /\ IsForwardStep
    /\ Len(steps) > 0
    /\ self = DecoderInit(self.num_layers, self.max_length)

\* C9: forward runs the three sub-blocks as a pipeline: the first receives
\* (encoder_outputs, encoder_output_lengths), each following one the output
\* and output lengths of the one before, and the output returned is the
\* log-softmax of the third sub-block's output.
C9_SubBlocksPipelined ==
    IsJasper =>
        /\ call.result.kind = "return"
        /\ Len(call.layer_calls) = 3
        /\ call.layer_calls[1].inputs = call.inputs
        /\ call.layer_calls[1].input_lengths = call.input_lengths
        /\ \A i \in 1..2 :
               /\ call.layer_calls[i + 1].inputs = call.layer_calls[i].output
               /\ call.layer_calls[i + 1].input_lengths = call.layer_calls[i].output_lengths
        /\ call.output.value = Term("log_softmax", -1, <<call.layer_calls[3].output.value>>)

====
